---------------------------- MODULE Spec2Model ----------------------------
(***************************************************************************)
(* MedSeg-Viewer: the COCO RLE codec, the mask rasterizer, the centroid    *)
(* calculator (utils.ts), the Viewer's overlay pass (Viewer.tsx) and the   *)
(* App's upload handlers and derived values (App.tsx).                     *)
(*                                                                         *)
(* The module holds one specification per component; each specification    *)
(* drives its own group of variables and leaves the others at Idle.        *)
(*   SpecCodec   decodeCocoRleString and the string encoders               *)
(*   SpecRle     decodeRleToCanvas and calculateCentroid                   *)
(*   SpecViewer  the requestAnimationFrame callback of Viewer.useEffect    *)
(*   SpecApp     handleJsonUpload, handleImageUpload, currentAnnotations   *)
(*   SpecTree    buildFileTree and the child order of FileTree             *)
(*   SpecColor   getColorForId                                             *)
(*   SpecEffect  successive runs of Viewer.useEffect on one canvas         *)
(*   SpecUploads handleJsonUpload and reader.onload with overlapping reads *)
(***************************************************************************)
EXTENDS Integers, Sequences, FiniteSets, TLC

VARIABLES
    \* --- codec ---
    runs,        \* the run-length sequence handed to an encoder
    rleString,   \* the compressed string (a sequence of char codes)
    source,      \* how rleString was produced: "coco", "spec41", "raw"
    decoded,     \* what decodeCocoRleString returned for rleString
    \* --- rasterizer / centroid ---
    rle,         \* the COCORLE argument: [size, counts]
    color,       \* the [r, g, b] argument of decodeRleToCanvas
    canvas,      \* outcome of decodeRleToCanvas(rle, color)
    centroid,    \* outcome of calculateCentroid(rle)
    \* --- Viewer (one render pass) ---
    annotations, \* the annotations prop: a sequence of annotation records
    drawn,       \* what has been drawn on the canvas, in order
    loading,     \* the loading state of the Viewer
    pass,        \* position of the pass: "idle", "loading", "scheduled",
                 \* "done", "threw", "failed"
    \* --- App ---
    cocoData,          \* the loaded document, or Null
    currentImageFile,  \* the uploaded image file (its name), or Null
    matchedImageId,    \* id of the matched image record, or Null
    activeTab,         \* "upload" or "structure"
    treeSearch,        \* the search term (a string)
    selectedTreeImage, \* the image record selected in the tree, or Null
    error,             \* the error message, or Null
    reads,             \* FileReader loads in flight: the files being read
    \* --- buildFileTree ---
    treeInput,   \* the images argument of buildFileTree
    treeResult,  \* what buildFileTree(treeInput) returned
    treeShown,   \* the child order FileTree renders for each folder
    \* --- getColorForId ---
    colorId,     \* the id argument
    rgb,         \* what getColorForId(colorId) returned
    \* --- Viewer (successive runs of the effect) ---
    effectRuns,    \* the runs of the effect so far: [anns, stage]
    effectCanvas,  \* the canvas: [base, ops], each tagged with its run
    effectLoading, \* the loading state of the Viewer
    objectUrls,    \* per run, "live" or "revoked": the URL it created
    mounted,       \* whether the Viewer is mounted
    \* --- overlapping JSON uploads ---
    started        \* history: the files of the uploads started since no
                   \* read was in flight, in the order they were started

codecVars == <<runs, rleString, source, decoded>>
rleVars == <<rle, color, canvas, centroid>>
viewerVars == <<annotations, drawn, loading, pass>>
appVars == <<cocoData, currentImageFile, matchedImageId, activeTab, treeSearch,
             selectedTreeImage, error, reads>>
treeVars == <<treeInput, treeResult, treeShown>>
colorVars == <<colorId, rgb>>
effectVars == <<effectRuns, effectCanvas, effectLoading, objectUrls, mounted>>
\* The groups of the specifications other than the first four.
otherVars == <<treeVars, colorVars, effectVars, started>>
vars == <<codecVars, rleVars, viewerVars, appVars, otherVars>>

\* Value of a variable group that the running specification does not drive.
Idle == "idle"
\* Value of an outcome variable before the operation has been called.
NotCalled == [kind |-> "notCalled"]

CodecIdle == runs = Idle /\ rleString = Idle /\ source = Idle /\ decoded = Idle
RleIdle == rle = Idle /\ color = Idle /\ canvas = Idle /\ centroid = Idle
ViewerIdle == annotations = Idle /\ drawn = Idle /\ loading = Idle /\ pass = Idle
AppIdle ==
    /\ cocoData = Idle /\ currentImageFile = Idle /\ matchedImageId = Idle
    /\ activeTab = Idle /\ treeSearch = Idle /\ selectedTreeImage = Idle
    /\ error = Idle /\ reads = Idle
TreeIdle == treeInput = Idle /\ treeResult = Idle /\ treeShown = Idle
ColorIdle == colorId = Idle /\ rgb = Idle
EffectIdle ==
    /\ effectRuns = Idle /\ effectCanvas = Idle /\ effectLoading = Idle
    /\ objectUrls = Idle /\ mounted = Idle
OthersIdle == TreeIdle /\ ColorIdle /\ EffectIdle /\ started = Idle

-----------------------------------------------------------------------------
(* Generic helpers *)

RECURSIVE SumSeq(_)
SumSeq(s) == IF s = <<>> THEN 0 ELSE Head(s) + SumSeq(Tail(s))

\* All sequences over S of length 0..n.
SeqsUpTo(S, n) == UNION {[1..k -> S] : k \in 0..n}

Pow2(n) == 2 ^ n

-----------------------------------------------------------------------------
(* JavaScript's bitwise operators on the values the decoder meets.          *)
(* \div floors and % is non-negative, which is two's complement arithmetic; *)
(* every value the bounded strings produce stays below 2^31 in magnitude,   *)
(* so ToInt32 is the identity on them.                                      *)

RECURSIVE BitAnd(_, _)
BitAnd(a, b) ==
    IF a = 0 \/ b = 0 THEN 0
    ELSE IF a = -1 THEN b
    ELSE IF b = -1 THEN a
    ELSE 2 * BitAnd(a \div 2, b \div 2) + (IF a % 2 = 1 /\ b % 2 = 1 THEN 1 ELSE 0)

RECURSIVE BitOr(_, _)
BitOr(a, b) ==
    IF a = 0 THEN b
    ELSE IF b = 0 THEN a
    ELSE IF a = -1 \/ b = -1 THEN -1
    ELSE 2 * BitOr(a \div 2, b \div 2) + (IF a % 2 = 1 \/ b % 2 = 1 THEN 1 ELSE 0)

\* a << s: the shift count is taken modulo 32.
Shl(a, s) == a * Pow2(s % 32)

\* a >> s (arithmetic shift).
Sar(a, s) == a \div Pow2(s % 32)


-----------------------------------------------------------------------------
(* utils.ts: decodeCocoRleString                                            *)
(* A string is a sequence of char codes; index p of the code is p+1 here.   *)

\* rleString.charCodeAt(p) - 48.  Past the end charCodeAt returns NaN, and
\* every bitwise operator turns NaN into 0, so the unit read there is 0.
UnitAt(str, p) == IF p < Len(str) THEN str[p + 1] - 48 ELSE 0

\* The inner loop "while (more)": one variable-length integer read from
\* index p on; k units have been consumed, x is the accumulator.
\* Returns the value and the index after it.
RECURSIVE VarintFrom(_, _, _, _)
VarintFrom(str, p, k, x) ==
    LET c == UnitAt(str, p)
        x1 == BitOr(x, Shl(BitAnd(c, 31), 5 * k))
        more == BitAnd(c, 32)
        p1 == p + 1
        k1 == k + 1
        x2 == IF more = 0 /\ BitAnd(c, 16) # 0
              THEN BitOr(x1, Shl(-1, 5 * k1))
              ELSE x1
    IN  IF more # 0 THEN VarintFrom(str, p1, k1, x2) ELSE [x |-> x2, p |-> p1]

\* The delta rule of lines 83-85: "if (m > 2) x += counts[m - 2]".
\* m is the 0-based index of the value being stored; counts[m-2] is
\* counts[m - 1] in 1-based indexing.
DeltaAppliesMutant(m) == m >= 2
DeltaApplies(m) == m > 2

\* The outer loop "while (p < rleString.length)".
RECURSIVE DecodeFrom(_, _, _)
DecodeFrom(str, p, counts) ==
    IF p < Len(str)
    THEN LET v == VarintFrom(str, p, 0, 0)
             m == Len(counts)
             x == IF DeltaApplies(m) THEN v.x + counts[m - 1] ELSE v.x
         IN  DecodeFrom(str, v.p, Append(counts, x))
    ELSE counts

\* decodeCocoRleString never throws on a string: its outcome is always the
\* returned array.
decodeCocoRleString(str) == [kind |-> "ok", counts |-> DecodeFrom(str, 0, <<>>)]

-----------------------------------------------------------------------------
(* The encoders the round trip is stated with.  Neither is code of the     *)
(* repository: RleToString inverts decodeCocoRleString as COCO's           *)
(* maskApi.c does (delta from the fourth value on), Spec41ToString is the   *)
(* inverse of the scheme as section 4.1 words it (delta from the third).    *)

\* One value as units: 5-bit payload, continuation bit 0x20, offset 48.
RECURSIVE VarintUnits(_)
VarintUnits(x) ==
    LET c == BitAnd(x, 31)
        rest == Sar(x, 5)
        more == IF BitAnd(c, 16) # 0 THEN rest # -1 ELSE rest # 0
    IN  IF more THEN <<BitOr(c, 32) + 48>> \o VarintUnits(rest)
        ELSE <<c + 48>>

RECURSIVE EncodeFrom(_, _, _)
EncodeFrom(cnts, i, first) ==
    IF i >= Len(cnts) THEN <<>>
    ELSE LET x == IF i >= first THEN cnts[i + 1] - cnts[i - 1] ELSE cnts[i + 1]
         IN  VarintUnits(x) \o EncodeFrom(cnts, i + 1, first)

RleToString(cnts) == EncodeFrom(cnts, 0, 3)
Spec41ToString(cnts) == EncodeFrom(cnts, 0, 2)

-----------------------------------------------------------------------------
(* SpecCodec *)

\* Bounds of the codec inputs.
MaxRuns == 4       \* longest run-length sequence encoded
MaxStrLen == 3     \* longest raw string decoded

\* Run lengths encoded: zero, one-unit values with and without the sign bit
\* set (15, 16), and two-unit values (40, 600).
RunValues == {0, 1, 15, 16, 40, 600}

\* Char codes of raw strings: units 0, 1, 17 (sign bit), 33 (continuation),
\* 49 (continuation and sign payload bit), 63.
RawChars == {48, 49, 65, 81, 97, 111}

EndsMidValue(str) == str # <<>> /\ BitAnd(str[Len(str)] - 48, 32) # 0

InitCodec ==
    /\ runs \in SeqsUpTo(RunValues, MaxRuns)
    /\ rleString = NotCalled
    /\ source = "none"
    /\ decoded = NotCalled
    /\ RleIdle /\ ViewerIdle /\ AppIdle /\ OthersIdle

EncodeCoco ==
    /\ source = "none"
    /\ rleString' = RleToString(runs)
    /\ source' = "coco"
    /\ UNCHANGED <<runs, decoded, rleVars, viewerVars, appVars, otherVars>>

EncodeSpec41 ==
    /\ source = "none"
    /\ rleString' = Spec41ToString(runs)
    /\ source' = "spec41"
    /\ UNCHANGED <<runs, decoded, rleVars, viewerVars, appVars, otherVars>>

\* A compressed string arriving from a document, not produced by an encoder.
RawString ==
    /\ source = "none"
    /\ runs = <<>>
    /\ rleString' \in SeqsUpTo(RawChars, MaxStrLen)
    /\ source' = "raw"
    /\ UNCHANGED <<runs, decoded, rleVars, viewerVars, appVars, otherVars>>

Decode ==
    /\ source # "none"
    /\ decoded = NotCalled
    /\ decoded' = decodeCocoRleString(rleString)
    /\ UNCHANGED <<runs, rleString, source, rleVars, viewerVars, appVars, otherVars>>

NextCodec == EncodeCoco \/ EncodeSpec41 \/ RawString \/ Decode

SpecCodec == InitCodec /\ [][NextCodec]_vars


-----------------------------------------------------------------------------
(* utils.ts: decodeRleToCanvas                                              *)
(* A COCORLE is [hasSize, h, w, type, counts]: hasSize is FALSE when the    *)
(* record has no size field; type is "array", "string" or "other" (counts   *)
(* neither an array nor a string).                                          *)

Transparent == <<0, 0, 0, 0>>

\* A store into the Uint8ClampedArray clamps to 0..255.
Clamp8(v) == IF v < 0 THEN 0 ELSE IF v > 255 THEN 255 ELSE v

\* Alpha written on foreground pixels (line 157).
MaskAlpha == 210

\* "while (runRemaining === 0)" of lines 138-147.  st is
\* [ci |-> countsIndex, run |-> runRemaining, val |-> currentValue].
\* At the end of the array the loop breaks and currentValue keeps the
\* parity of the last run.
RECURSIVE AdvanceRun(_, _)
AdvanceRun(counts, st) ==
    IF st.run # 0 THEN st
    ELSE LET ci == st.ci + 1
         IN  IF ci < Len(counts)
             THEN AdvanceRun(counts, [ci |-> ci, run |-> counts[ci + 1], val |-> ci % 2])
             ELSE [st EXCEPT !.ci = ci]

\* The pixel store of lines 150-158: row-major index y * w + x.
PixelIndexMutant(x, y, h, w) == x * h + y
PixelIndex(x, y, h, w) == y * w + x

\* The two nested loops of lines 134-164, as one loop over the column-major
\* scan position n = x * h + y.  st carries the run state and the buffer.
RECURSIVE ScanCanvas(_, _, _, _, _, _)
ScanCanvas(counts, h, w, col, n, st) ==
    IF n >= w * h THEN st
    ELSE LET x == n \div h
             y == n % h
             a == AdvanceRun(counts, [ci |-> st.ci, run |-> st.run, val |-> st.val])
             data == IF a.val = 1
                     THEN [st.data EXCEPT ![PixelIndex(x, y, h, w)] =
                              <<Clamp8(col[1]), Clamp8(col[2]), Clamp8(col[3]), MaskAlpha>>]
                     ELSE st.data
             run == IF a.run > 0 THEN a.run - 1 ELSE a.run
         IN  ScanCanvas(counts, h, w, col, n + 1,
                        [ci |-> a.ci, run |-> run, val |-> a.val, data |-> data])

\* Lines 105-116: counts normalised to an array, or "none" for a counts
\* field that is neither array nor string.  The catch of lines 110-113 has
\* nothing to catch, since decodeCocoRleString returns for every string.
NormalizeCounts(r) ==
    IF r.type = "array" THEN [kind |-> "ok", counts |-> r.counts]
    ELSE IF r.type = "string" THEN decodeCocoRleString(r.counts)
    ELSE [kind |-> "none"]

\* ctx.createImageData(w, h) of line 124 throws IndexSizeError when either
\* argument is zero.
CreateImageDataThrowsMutant(h, w) == FALSE
CreateImageDataThrows(h, w) == h = 0 \/ w = 0

\* The outcome is [kind |-> "throws"], [kind |-> "null"] or
\* [kind |-> "canvas", h, w, data], data mapping each row-major pixel index
\* to its RGBA quadruple.
decodeRleToCanvas(r, col) ==
    IF ~r.hasSize THEN [kind |-> "throws"]           \* line 101: size is not iterable
    ELSE LET norm == NormalizeCounts(r)
         IN  IF norm.kind # "ok" THEN [kind |-> "null"]
             ELSE IF CreateImageDataThrows(r.h, r.w) THEN [kind |-> "throws"]
             ELSE IF Len(norm.counts) = 0 THEN [kind |-> "null"]
             ELSE LET init == [ci |-> 0, run |-> norm.counts[1], val |-> 0,
                               data |-> [i \in 0..(r.w * r.h - 1) |-> Transparent]]
                      fin == ScanCanvas(norm.counts, r.h, r.w, col, 0, init)
                  IN  [kind |-> "canvas", h |-> r.h, w |-> r.w, data |-> fin.data]

-----------------------------------------------------------------------------
(* utils.ts: calculateCentroid *)

\* "while (runRemaining === 0)" of lines 197-205.
RECURSIVE AdvanceRunCentroid(_, _)
AdvanceRunCentroid(counts, st) ==
    IF st.run # 0 THEN st
    ELSE LET ci == st.ci + 1
         IN  IF ci < Len(counts)
             THEN AdvanceRunCentroid(counts,
                      [ci |-> ci, run |-> counts[ci + 1], val |-> ci % 2])
             ELSE [st EXCEPT !.ci = ci]

\* Lines 207-211: what a foreground pixel at (x, y) adds to the sums.
AccumulateMutant(st, x, y) ==
    [st EXCEPT !.totalX = @ + y, !.totalY = @ + x, !.totalPixels = @ + 1]
Accumulate(st, x, y) ==
    [st EXCEPT !.totalX = @ + x, !.totalY = @ + y, !.totalPixels = @ + 1]

\* The loops of lines 195-215.
RECURSIVE ScanCentroid(_, _, _, _, _)
ScanCentroid(counts, h, w, n, st) ==
    IF n >= w * h THEN st
    ELSE LET x == n \div h
             y == n % h
             a == AdvanceRunCentroid(counts, [ci |-> st.ci, run |-> st.run, val |-> st.val])
             s1 == [st EXCEPT !.ci = a.ci, !.run = a.run, !.val = a.val]
             s2 == IF a.val = 1 THEN Accumulate(s1, x, y) ELSE s1
             s3 == IF s2.run > 0 THEN [s2 EXCEPT !.run = @ - 1] ELSE s2
         IN  ScanCentroid(counts, h, w, n + 1, s3)

\* Line 217: no foreground pixel gives null.
NoPixelsMutant(st) == FALSE
NoPixels(st) == st.totalPixels = 0

\* The outcome is [kind |-> "throws"], [kind |-> "null"] or
\* [kind |-> "point", totalX, totalY, totalPixels]: the returned x is the
\* quotient totalX / totalPixels and y is totalY / totalPixels.
calculateCentroid(r) ==
    IF ~r.hasSize THEN [kind |-> "throws"]           \* line 174
    ELSE LET norm == NormalizeCounts(r)
         IN  IF norm.kind # "ok" THEN [kind |-> "null"]
             ELSE IF Len(norm.counts) = 0 THEN [kind |-> "null"]
             ELSE LET init == [ci |-> 0, run |-> norm.counts[1], val |-> 0,
                               totalX |-> 0, totalY |-> 0, totalPixels |-> 0]
                      fin == ScanCentroid(norm.counts, r.h, r.w, 0, init)
                  IN  IF NoPixels(fin) THEN [kind |-> "null"]
                      ELSE [kind |-> "point", totalX |-> fin.totalX,
                            totalY |-> fin.totalY, totalPixels |-> fin.totalPixels]

-----------------------------------------------------------------------------
(* SpecRle *)

MaxDim == 2        \* largest height and width
MaxRun == 4        \* largest run length in an uncompressed counts array
MaxCounts == 3     \* longest uncompressed counts array
MaxRleStr == 2     \* longest compressed counts string

Colors == {<<255, 0, 0>>, <<12, 200, 34>>}

RleInputs ==
    LET sized(t, c) == {[hasSize |-> TRUE, h |-> hh, w |-> ww, type |-> t, counts |-> c] :
                            hh \in 0..MaxDim, ww \in 0..MaxDim}
        unsized(t, c) == {[hasSize |-> FALSE, h |-> 0, w |-> 0, type |-> t, counts |-> c]}
        both(t, c) == sized(t, c) \cup unsized(t, c)
    IN  UNION ({both("array", c) : c \in SeqsUpTo(-1..MaxRun, MaxCounts)}
               \cup {both("string", c) : c \in SeqsUpTo(RawChars, MaxRleStr)}
               \cup {both("other", <<>>)})

InitRle ==
    /\ rle \in RleInputs
    /\ color \in Colors
    /\ canvas = NotCalled
    /\ centroid = NotCalled
    /\ CodecIdle /\ ViewerIdle /\ AppIdle /\ OthersIdle

Rasterize ==
    /\ canvas = NotCalled
    /\ canvas' = decodeRleToCanvas(rle, color)
    /\ UNCHANGED <<rle, color, centroid, codecVars, viewerVars, appVars, otherVars>>

Centroid ==
    /\ centroid = NotCalled
    /\ centroid' = calculateCentroid(rle)
    /\ UNCHANGED <<rle, color, canvas, codecVars, viewerVars, appVars, otherVars>>

NextRle == Rasterize \/ Centroid

SpecRle == InitRle /\ [][NextRle]_vars


-----------------------------------------------------------------------------
(* Reference notions used by the properties of SpecRle: the mask a         *)
(* run-length sequence denotes, stated without the scan.                    *)

\* Sum of the first k entries of S.
RECURSIVE PrefixSum(_, _)
PrefixSum(S, k) == IF k = 0 THEN 0 ELSE PrefixSum(S, k - 1) + S[k]

\* Column-major scan position n lies inside an odd-indexed run of S
\* (0-based index odd, so 1-based index even).
InOddRun(S, n) ==
    \E i \in 1..Len(S) :
        /\ i % 2 = 0
        /\ PrefixSum(S, i - 1) <= n
        /\ n < PrefixSum(S, i)

\* Sum of the odd-indexed (0-based) entries of S.
SumOdd(S) == SumSeq([i \in 1..(Len(S) \div 2) |-> S[2 * i]])

NonNegative(S) == \A i \in 1..Len(S) : S[i] >= 0

\* An uncompressed RLE with a size, positive dimensions and non-negative runs.
ArrayRle(r) ==
    /\ r.hasSize /\ r.type = "array"
    /\ r.h > 0 /\ r.w > 0
    /\ NonNegative(r.counts)

\* Sums over the pixels of a bitmap whose alpha is non-zero.
RECURSIVE BitmapSum(_, _, _)
BitmapSum(cv, n, what) ==
    IF n >= cv.w * cv.h THEN 0
    ELSE LET x == n \div cv.h
             y == n % cv.h
             fg == cv.data[y * cv.w + x][4] # 0
             term == IF ~fg THEN 0
                     ELSE IF what = "x" THEN x ELSE IF what = "y" THEN y ELSE 1
         IN  term + BitmapSum(cv, n + 1, what)

-----------------------------------------------------------------------------
(* Properties of SpecRle *)

\* C1: for an uncompressed counts array of non-negative integers whose sum
\* is smaller than h*w, every pixel after the last run in column-major scan
\* order is left fully transparent in the bitmap decodeRleToCanvas produces,
\* whatever the parity of the last run's index.
C1_TrailingPixelsBackground ==
    (canvas.kind = "canvas" /\ ArrayRle(rle) /\ SumSeq(rle.counts) < rle.h * rle.w)
        => \A n \in SumSeq(rle.counts)..(rle.h * rle.w - 1) :
               canvas.data[(n % rle.h) * rle.w + (n \div rle.h)] = <<0, 0, 0, 0>>

\* C2: for a non-empty sequence S of non-negative run lengths with sum h*w
\* and a color (r,g,b), the buffer has RGBA = (r,g,b,210) at row-major index
\* y*w+x exactly when scan position x*h+y falls inside an odd-indexed run
\* of S and (0,0,0,0) otherwise; the number of foreground pixels is the sum
\* of the odd-indexed entries of S.
C2_RasterMatchesRuns ==
    (canvas.kind # "notCalled" /\ ArrayRle(rle) /\ rle.counts # <<>>
        /\ SumSeq(rle.counts) = rle.h * rle.w)
        => /\ canvas.kind = "canvas"
           /\ \A x \in 0..(rle.w - 1), y \in 0..(rle.h - 1) :
                  canvas.data[y * rle.w + x] =
                      IF InOddRun(rle.counts, x * rle.h + y)
                      THEN <<color[1], color[2], color[3], 210>>
                      ELSE <<0, 0, 0, 0>>
           /\ Cardinality({i \in DOMAIN canvas.data : canvas.data[i][4] # 0})
                  = SumOdd(rle.counts)

\* A 2x2 mask whose single foreground pixel sits at x = 0, y = 1, where the
\* column-major position (1) differs from the row-major index (2).
C2_Witness ==
    /\ canvas.kind = "canvas"
    /\ rle.hasSize /\ rle.h = 2 /\ rle.w = 2
    /\ rle.type = "array" /\ rle.counts = <<1, 1, 2>>
    /\ canvas.data[2][4] = 210

\* C3: for every RLE the sums and count calculateCentroid accumulates equal
\* those of the pixels with non-zero alpha in the bitmap decodeRleToCanvas
\* produces for the same RLE; where no bitmap is produced, no centroid is
\* returned either.
C3_CentroidMatchesRaster ==
    (canvas.kind # "notCalled" /\ centroid.kind # "notCalled")
        => IF canvas.kind = "canvas"
           THEN LET n == BitmapSum(canvas, 0, "n")
                IN  IF n = 0 THEN centroid.kind = "null"
                    ELSE /\ centroid.kind = "point"
                         /\ centroid.totalPixels = n
                         /\ centroid.totalX = BitmapSum(canvas, 0, "x")
                         /\ centroid.totalY = BitmapSum(canvas, 0, "y")
           ELSE centroid.kind # "point"

\* A counts array overshooting h*w whose foreground has different x and y sums.
C3_Witness ==
    /\ canvas.kind = "canvas" /\ centroid.kind = "point"
    /\ rle.type = "array" /\ SumSeq(rle.counts) > rle.h * rle.w
    /\ centroid.totalX # centroid.totalY

\* C4: for array or string counts calculateCentroid returns null or a point
\* and never throws; it returns null for an empty counts array and for
\* counts = [h*w]; for a valid RLE (non-negative runs summing to h*w) it
\* returns null exactly when the odd-indexed runs are all empty, and
\* otherwise the sums of x and y over the n pixels lying in odd-indexed runs.
C4_CentroidOutcome ==
    (centroid.kind # "notCalled" /\ rle.hasSize /\ rle.type \in {"array", "string"})
        => /\ centroid.kind \in {"null", "point"}
           /\ centroid.kind = "point" => centroid.totalPixels > 0
           /\ (rle.type = "array" /\ rle.counts = <<>>) => centroid.kind = "null"
           /\ (rle.type = "array" /\ rle.counts = <<rle.h * rle.w>>) => centroid.kind = "null"
           /\ (ArrayRle(rle) /\ rle.counts # <<>> /\ SumSeq(rle.counts) = rle.h * rle.w)
                 => LET fg == {n \in 0..(rle.h * rle.w - 1) : InOddRun(rle.counts, n)}
                        xs == [n \in 0..(rle.h * rle.w - 1) |->
                                  IF n \in fg THEN n \div rle.h ELSE 0]
                        ys == [n \in 0..(rle.h * rle.w - 1) |->
                                  IF n \in fg THEN n % rle.h ELSE 0]
                    IN  IF fg = {} THEN centroid.kind = "null"
                        ELSE /\ centroid.kind = "point"
                             /\ centroid.totalPixels = Cardinality(fg)
                             /\ centroid.totalX =
                                    SumSeq([i \in 1..(rle.h * rle.w) |-> xs[i - 1]])
                             /\ centroid.totalY =
                                    SumSeq([i \in 1..(rle.h * rle.w) |-> ys[i - 1]])

\* The all-background mask counts = [h*w] of a 2x2 image: no centroid.
C4_Witness ==
    /\ centroid.kind = "null"
    /\ rle.hasSize /\ rle.h = 2 /\ rle.w = 2
    /\ rle.type = "array" /\ rle.counts = <<4>>

\* C7: decodeRleToCanvas returns null, without raising an error, when the
\* declared size has h = 0 or w = 0 or when the counts array is empty.
C7_NullOnZeroSizeOrEmpty ==
    (canvas.kind # "notCalled" /\ rle.hasSize /\ rle.type \in {"array", "string"}
        /\ (rle.h = 0 \/ rle.w = 0 \/ rle.counts = <<>>))
        => canvas.kind = "null"

-----------------------------------------------------------------------------
(* Properties of SpecCodec *)

\* C5 as stated: encoding with the inverse of section 4.1's scheme (delta
\* against the value two positions back from the third value on) and
\* decoding with decodeCocoRleString yields the original sequence.
C5_RoundTripSpec41 ==
    (source = "spec41" /\ decoded.kind # "notCalled")
        => (decoded.kind = "ok" /\ decoded.counts = runs)

\* C5 amended: the round trip yields the original sequence when the encoder
\* takes the delta against the value two positions back from the fourth
\* value on (index >= 3), as COCO's rleToString does.
C5_RoundTripCoco ==
    (source = "coco" /\ decoded.kind # "notCalled")
        => (decoded.kind = "ok" /\ decoded.counts = runs)

\* A decoded sequence with a zero-length run and a negative delta.
C5_Witness ==
    /\ source = "coco" /\ decoded.kind = "ok"
    /\ Len(runs) = 4
    /\ \E i \in 1..4 : runs[i] = 0
    /\ runs[4] < runs[2]

\* C6: when the compressed string ends in the middle of a value (its last
\* character has the continuation bit 0x20 set), decodeCocoRleString fails
\* with a decode error instead of returning run lengths.
C6_TruncatedStringFails ==
    (source = "raw" /\ EndsMidValue(rleString) /\ decoded.kind # "notCalled")
        => decoded.kind = "error"


-----------------------------------------------------------------------------
(* utils.ts: getColorForId and hslToRgb, in exact arithmetic.               *)
(* Hues are in thousandths of a degree; the argument t of hue2rgb is in     *)
(* units of 1/HueUnit, so that thirds and sixths are whole numbers; a       *)
(* channel value v (0..1) is carried as the numerator of 255*v over         *)
(* ChannelDen.                                                              *)

\* JavaScript's %: the result has the sign of the dividend.
JsRem(a, b) == IF a >= 0 THEN a % b ELSE -((-a) % b)

HueUnit == 1080000
ChannelDen == 18750

\* p = 2l - q = 0.28 with l = 0.6, s = 0.8, q = l + s - l*s = 0.92:
\* 255 * 0.28 * ChannelDen.
ChannelP == 1338750

\* hue2rgb(p, q, t) of lines 243-250; (q - p) * 6 * 255 * ChannelDen / HueUnit = 17.
hue2rgb(t0) ==
    LET t1 == IF t0 < 0 THEN t0 + HueUnit ELSE t0
        t == IF t1 > HueUnit THEN t1 - HueUnit ELSE t1
    IN  IF 6 * t < HueUnit THEN ChannelP + 17 * t
        ELSE IF 2 * t < HueUnit THEN ChannelP
        ELSE IF 3 * t < 2 * HueUnit THEN ChannelP + 17 * ((2 * HueUnit) \div 3 - t)
        ELSE ChannelP

\* Math.round(num / ChannelDen): the nearest integer, halves upwards.
RoundChannel(num) == (2 * num + ChannelDen) \div (2 * ChannelDen)

\* getColorForId: hue = (id * 137.508) % 360, then hslToRgb(hue / 360, 0.8, 0.6).
getColorForId(id) ==
    LET hue == JsRem(id * 137508, 360000)
        h == 3 * hue
    IN  <<RoundChannel(hue2rgb(h + HueUnit \div 3)),
          RoundChannel(hue2rgb(h)),
          RoundChannel(hue2rgb(h - HueUnit \div 3))>>

-----------------------------------------------------------------------------
(* Viewer.tsx: one run of the effect and its callbacks.                     *)
(* An annotation is [id, hasBbox, seg, rle]: hasBbox says whether bbox is   *)
(* present with four entries; seg is the shape of the segmentation field:   *)
(* "rle" (an object with counts, held in rle), "polygon" (an object without *)
(* counts), "null" or "undefined".                                          *)

\* "typeof ann.segmentation === 'object' && 'counts' in ann.segmentation":
\* "yes", "no", or "throws" for null, whose typeof is 'object' and on which
\* the in operator raises a TypeError.
HasCountsMutant(a) == IF a.seg = "rle" THEN "yes" ELSE "no"
HasCounts(a) ==
    IF a.seg = "null" THEN "throws"
    ELSE IF a.seg = "rle" THEN "yes"
    ELSE "no"

\* Pass 1 (lines 64-97) from annotation i on: bounding boxes and masks.
\* Returns the draw operations issued and whether an exception escaped.
RECURSIVE DrawMasks(_, _, _)
DrawMasks(anns, i, ops) ==
    IF i > Len(anns) THEN [threw |-> FALSE, ops |-> ops]
    ELSE LET a == anns[i]
             col == getColorForId(a.id)
             ops1 == IF a.hasBbox THEN Append(ops, [op |-> "bbox", ann |-> i]) ELSE ops
             has == HasCounts(a)
         IN  IF has = "throws" THEN [threw |-> TRUE, ops |-> ops1]
             ELSE IF has = "no" THEN DrawMasks(anns, i + 1, ops1)
             ELSE LET mask == decodeRleToCanvas(a.rle, col)
                  IN  IF mask.kind = "throws" THEN [threw |-> TRUE, ops |-> ops1]
                      ELSE IF mask.kind = "canvas"
                      THEN DrawMasks(anns, i + 1, Append(ops1, [op |-> "mask", ann |-> i]))
                      ELSE DrawMasks(anns, i + 1, ops1)

\* Pass 2 (lines 107-175) from annotation i on: labels.
RECURSIVE DrawLabels(_, _, _)
DrawLabels(anns, i, ops) ==
    IF i > Len(anns) THEN [threw |-> FALSE, ops |-> ops]
    ELSE LET a == anns[i]
             label == Append(ops, [op |-> "label", ann |-> i])
         IN  IF a.hasBbox THEN DrawLabels(anns, i + 1, label)
             ELSE LET has == HasCounts(a)
                  IN  IF has = "throws" THEN [threw |-> TRUE, ops |-> ops]
                      ELSE IF has = "no" THEN DrawLabels(anns, i + 1, ops)
                      ELSE LET c == calculateCentroid(a.rle)
                           IN  IF c.kind = "throws" THEN [threw |-> TRUE, ops |-> ops]
                               ELSE IF c.kind = "point"
                               THEN DrawLabels(anns, i + 1, label)
                               ELSE DrawLabels(anns, i + 1, ops)

\* The requestAnimationFrame callback of lines 59-178: pass 1, then pass 2,
\* then setLoading(false); an exception in either pass ends the callback.
RenderOverlays(anns) ==
    LET p1 == DrawMasks(anns, 1, <<>>)
    IN  IF p1.threw THEN p1
        ELSE DrawLabels(anns, 1, p1.ops)

-----------------------------------------------------------------------------
(* SpecViewer *)

MaxAnnotations == 2    \* longest annotations prop

NoRle == [hasSize |-> FALSE, h |-> 0, w |-> 0, type |-> "other", counts |-> <<>>]

\* Masks an annotation may carry: a 1x2 mask with one foreground pixel, an
\* all-background mask, a compressed string ending mid-value ("Q"), empty
\* counts, a zero height, and a missing size field.
ViewerRles ==
    {[hasSize |-> TRUE, h |-> 1, w |-> 2, type |-> "array", counts |-> <<1, 1>>],
     [hasSize |-> TRUE, h |-> 1, w |-> 2, type |-> "array", counts |-> <<2>>],
     [hasSize |-> TRUE, h |-> 1, w |-> 2, type |-> "string", counts |-> <<81>>],
     [hasSize |-> TRUE, h |-> 1, w |-> 2, type |-> "array", counts |-> <<>>],
     [hasSize |-> TRUE, h |-> 0, w |-> 2, type |-> "array", counts |-> <<1, 1>>],
     [hasSize |-> FALSE, h |-> 0, w |-> 0, type |-> "array", counts |-> <<1, 1>>]}

AnnotationShapes ==
    {[hasBbox |-> b, seg |-> "rle", rle |-> r] : b \in BOOLEAN, r \in ViewerRles}
    \cup {[hasBbox |-> b, seg |-> k, rle |-> NoRle] :
              b \in BOOLEAN, k \in {"polygon", "null", "undefined"}}

\* Annotation lists; the annotation at position i has id i.
AnnotationLists ==
    {[i \in 1..Len(l) |-> [id |-> i, hasBbox |-> l[i].hasBbox,
                           seg |-> l[i].seg, rle |-> l[i].rle]] :
         l \in SeqsUpTo(AnnotationShapes, MaxAnnotations)}

InitViewer ==
    /\ annotations \in AnnotationLists
    /\ drawn = <<>>
    /\ loading = FALSE
    /\ pass = "idle"
    /\ CodecIdle /\ RleIdle /\ AppIdle /\ OthersIdle

\* The effect body, lines 37-48: setLoading(true), the image starts loading.
EffectRun ==
    /\ pass = "idle"
    /\ loading' = TRUE
    /\ pass' = "loading"
    /\ UNCHANGED <<annotations, drawn, codecVars, rleVars, appVars, otherVars>>

\* img.onload, lines 50-59: the canvas is sized, the base image drawn and
\* the overlay callback scheduled.
ImgOnload ==
    /\ pass = "loading"
    /\ drawn' = <<[op |-> "image", ann |-> 0]>>
    /\ pass' = "scheduled"
    /\ UNCHANGED <<annotations, loading, codecVars, rleVars, appVars, otherVars>>

\* img.onerror, lines 181-184.
ImgOnerror ==
    /\ pass = "loading"
    /\ loading' = FALSE
    /\ pass' = "failed"
    /\ UNCHANGED <<annotations, drawn, codecVars, rleVars, appVars, otherVars>>

\* The requestAnimationFrame callback runs.
RafCallback ==
    /\ pass = "scheduled"
    /\ LET r == RenderOverlays(annotations)
       IN  /\ drawn' = drawn \o r.ops
           /\ loading' = IF r.threw THEN loading ELSE FALSE
           /\ pass' = IF r.threw THEN "threw" ELSE "done"
    /\ UNCHANGED <<annotations, codecVars, rleVars, appVars, otherVars>>

NextViewer == EffectRun \/ ImgOnload \/ ImgOnerror \/ RafCallback

SpecViewer == InitViewer /\ [][NextViewer]_vars

\* Draw operation o of annotation i has been issued.
Drawn(o, i) == \E k \in 1..Len(drawn) : drawn[k] = [op |-> o, ann |-> i]

\* The mask of annotation a decodes to a bitmap.
MaskDecodes(a) ==
    a.seg = "rle" /\ decodeRleToCanvas(a.rle, getColorForId(a.id)).kind = "canvas"

\* C8: within one render pass a failure in one annotation's mask (malformed
\* counts, zero or missing size, null segmentation) does not stop the pass:
\* once the callback has run, every annotation with a bounding box has its
\* box and label drawn, every annotation whose mask decodes has its mask
\* drawn, and loading is false.
C8_MaskFailureIsolated ==
    pass \in {"done", "threw"}
        => /\ loading = FALSE
           /\ \A i \in 1..Len(annotations) :
                  /\ annotations[i].hasBbox => (Drawn("bbox", i) /\ Drawn("label", i))
                  /\ MaskDecodes(annotations[i]) => Drawn("mask", i)


-----------------------------------------------------------------------------
(* JavaScript strings and values as App.tsx and utils.ts use them.          *)
(* A string is a sequence of one-character strings.  A JSON value is         *)
(* [t |-> "num", v |-> n], [t |-> "str", v |-> s] or Null.                   *)

Null == [t |-> "null"]
Num(n) == [t |-> "num", v |-> n]
Str(s) == [t |-> "str", v |-> s]

IsWhitespace(c) == c = " "
IsSeparator(c) == c = "/" \/ c = "\\"
Digits == <<"0", "1", "2", "3", "4", "5", "6", "7", "8", "9">>
IsDigit(c) == \E d \in 1..10 : Digits[d] = c
DigitValue(c) == (CHOOSE d \in 1..10 : Digits[d] = c) - 1

\* String.prototype.trim
RECURSIVE TrimStart(_)
TrimStart(s) == IF s # <<>> /\ IsWhitespace(Head(s)) THEN TrimStart(Tail(s)) ELSE s
RECURSIVE TrimEnd(_)
TrimEnd(s) ==
    IF s # <<>> /\ IsWhitespace(s[Len(s)]) THEN TrimEnd(SubSeq(s, 1, Len(s) - 1)) ELSE s
Trim(s) == TrimEnd(TrimStart(s))

\* String.prototype.toLowerCase on the letters of the model's alphabet.
LowerChar(c) ==
    CASE c = "A" -> "a" [] c = "B" -> "b" [] c = "C" -> "c" [] c = "D" -> "d"
      [] c = "G" -> "g" [] c = "J" -> "j" [] c = "N" -> "n" [] c = "P" -> "p"
      [] OTHER -> c
ToLowerCase(s) == [i \in 1..Len(s) |-> LowerChar(s[i])]

\* s.lastIndexOf(c): the 0-based index of the last occurrence, or -1.
LastIndexOf(s, c) ==
    LET hits == {i \in 1..Len(s) : s[i] = c}
    IN  IF hits = {} THEN -1 ELSE (CHOOSE i \in hits : \A j \in hits : j <= i) - 1

\* s.substring(0, e): a negative e counts as 0.
Substring0(s, e) == SubSeq(s, 1, IF e < 0 THEN 0 ELSE IF e > Len(s) THEN Len(s) ELSE e)

\* a || b on strings: the empty string is falsy.
OrElse(a, b) == IF a = <<>> THEN b ELSE a

\* s.includes(sub)
Includes(s, sub) ==
    \E i \in 0..(Len(s) - Len(sub)) : SubSeq(s, i + 1, i + Len(sub)) = sub

\* path.split(/[/\\]/): the segments between separators, empty ones kept.
RECURSIVE SplitFrom(_, _, _)
SplitFrom(s, i, cur) ==
    IF i > Len(s) THEN <<cur>>
    ELSE IF IsSeparator(s[i]) THEN <<cur>> \o SplitFrom(s, i + 1, <<>>)
    ELSE SplitFrom(s, i + 1, Append(cur, s[i]))
SplitPath(s) == SplitFrom(s, 1, <<>>)

\* s.split('.').pop(): the part after the last '.', the whole string without one.
AfterLastDot(s) == SubSeq(s, LastIndexOf(s, ".") + 2, Len(s))

\* Number.prototype.toString for the non-negative integers of the model.
RECURSIVE NumToString(_)
NumToString(n) ==
    IF n < 10 THEN <<Digits[n + 1]>> ELSE Append(NumToString(n \div 10), Digits[(n % 10) + 1])

\* ToNumber on a string: whitespace is trimmed, the empty string is 0, a
\* string of decimal digits is its value; anything else the model's strings
\* can hold is NaN.
RECURSIVE DecimalValue(_)
DecimalValue(s) ==
    IF s = <<>> THEN 0 ELSE 10 * DecimalValue(SubSeq(s, 1, Len(s) - 1)) + DigitValue(s[Len(s)])
StringToNumber(s) ==
    LET t == Trim(s)
    IN  IF \A i \in 1..Len(t) : IsDigit(t[i])
        THEN [nan |-> FALSE, v |-> DecimalValue(t)]
        ELSE [nan |-> TRUE, v |-> 0]

\* a == b (loose equality) on JSON values: a number and a string compare
\* as numbers after ToNumber of the string; null equals only null.
NumEqualsString(n, s) ==
    LET x == StringToNumber(s) IN ~x.nan /\ x.v = n
LooseEquals(a, b) ==
    IF a.t = b.t THEN a = b
    ELSE IF a.t = "num" /\ b.t = "str" THEN NumEqualsString(a.v, b.v)
    ELSE IF a.t = "str" /\ b.t = "num" THEN NumEqualsString(b.v, a.v)
    ELSE FALSE

-----------------------------------------------------------------------------
(* utils.ts: getBasename *)

\* (path.split(/[/\\]/).pop() || path).trim()
getBasename(path) ==
    LET parts == SplitPath(path)
    IN  Trim(OrElse(parts[Len(parts)], path))


-----------------------------------------------------------------------------
(* utils.ts: buildFileTree                                                  *)
(* A tree is a function from node positions to nodes: the position of a     *)
(* node is the sequence of keys leading to it from the root (the root is    *)
(* at <<>>), and the children of a node are the nodes one key below it.     *)
(* A node is [name, type, data, path].                                      *)

RootName == <<"r", "o", "o", "t">>

IsProperPrefix(p, q) == Len(p) < Len(q) /\ SubSeq(q, 1, Len(p)) = p

RootTree == (<<>> :> [name |-> RootName, type |-> "folder", data |-> Null, path |-> <<>>])

\* current.children[part] = node: whatever was stored under that key, with
\* everything below it, is replaced.
PutNode(tree, pos, node) ==
    LET keep == {q \in DOMAIN tree : q # pos /\ ~IsProperPrefix(pos, q)}
    IN  [q \in keep \cup {pos} |-> IF q = pos THEN node ELSE tree[q]]

\* children is created as {} (lines 286, 298, 315), an object that inherits
\* the members of Object.prototype: current.children[part] of lines 311 and
\* 319 finds the inherited function when part names one of them and the
\* folder holds no child of its own under that name.  "constructor" stands
\* for these names (toString, valueOf, hasOwnProperty, ... behave alike).
InheritedKeys == {<<"c", "o", "n", "s", "t", "r", "u", "c", "t", "o", "r">>}

\* The inner forEach of lines 294-321 from part number index (1-based) on;
\* cur is the position of current, currentPath the path string so far.
\* When line 311 finds an inherited function, no folder is created, line
\* 319 makes that function current, and the remaining parts are stored on
\* it: the tree under root stays as it is.
RECURSIVE AddParts(_, _, _, _, _, _)
AddParts(tree, img, parts, index, cur, currentPath) ==
    IF index > Len(parts) THEN tree
    ELSE LET part == parts[index]
             cp == IF currentPath # <<>> THEN currentPath \o <<"/">> \o part ELSE part
             pos == Append(cur, part)
         IN  IF index = Len(parts)
             THEN PutNode(tree, pos,
                          [name |-> part, type |-> "file", data |-> img, path |-> cp])
             ELSE IF pos \notin DOMAIN tree /\ part \in InheritedKeys
             THEN tree
             ELSE LET t1 == IF pos \in DOMAIN tree THEN tree
                            ELSE PutNode(tree, pos, [name |-> part, type |-> "folder",
                                                     data |-> Null, path |-> cp])
                  IN  AddParts(t1, img, parts, index + 1, pos, cp)

\* The outer forEach of lines 288-322 from image number i on.
RECURSIVE AddImages(_, _, _)
AddImages(tree, images, i) ==
    IF i > Len(images) THEN tree
    ELSE AddImages(AddParts(tree, images[i], SplitPath(images[i].file_name), 1, <<>>, <<>>),
                   images, i + 1)

buildFileTree(images) == AddImages(RootTree, images, 1)

\* FileTree.tsx lines 17-33 and 61-79: the file nodes the tree view shows
\* are those below folders only; a node of type file is drawn as a leaf.
ShownFiles(tree) ==
    {pos \in DOMAIN tree :
        /\ tree[pos].type = "file"
        /\ \A q \in DOMAIN tree : IsProperPrefix(q, pos) => tree[q].type = "folder"}

-----------------------------------------------------------------------------
(* App.tsx *)

\* Messages of setError.
NeedJsonError == [kind |-> "needJson"]
ParseError(why) == [kind |-> "parse", why |-> why]
NotFoundError(name, examples) == [kind |-> "notFound", name |-> name, examples |-> examples]

File(name) == [t |-> "file", name |-> name]

\* Lines 61 and 65: x.substring(0, x.lastIndexOf('.')) || x
NameNoExtMutant(x) == Substring0(x, LastIndexOf(x, "."))
NameNoExt(x) == OrElse(Substring0(x, LastIndexOf(x, ".")), x)

\* The predicate of cocoData.images.find, lines 63-67.
ImageMatches(img, uploadedNameNoExt) ==
    ToLowerCase(NameNoExt(getBasename(img.file_name))) = ToLowerCase(uploadedNameNoExt)

\* Array.prototype.find: the index of the first element satisfying the
\* predicate, 0 when there is none.
FindImage(images, uploadedNameNoExt) ==
    LET hits == {i \in 1..Len(images) : ImageMatches(images[i], uploadedNameNoExt)}
    IN  IF hits = {} THEN 0 ELSE CHOOSE i \in hits : \A j \in hits : i <= j

\* Line 76: cocoData.images.slice(0, 3).map(i => getBasename(i.file_name))
ExampleNames(images) ==
    [i \in 1..(IF Len(images) < 3 THEN Len(images) ELSE 3) |-> getBasename(images[i].file_name)]

\* currentAnnotations, lines 81-89.
TargetId ==
    IF activeTab = "upload" THEN matchedImageId
    ELSE IF selectedTreeImage = Null THEN Null ELSE selectedTreeImage.id
RECURSIVE FilterByImage(_, _)
FilterByImage(anns, targetId) ==
    IF anns = <<>> THEN <<>>
    ELSE (IF LooseEquals(Head(anns).image_id, targetId) THEN <<Head(anns)>> ELSE <<>>)
             \o FilterByImage(Tail(anns), targetId)
currentAnnotations ==
    IF cocoData = Null THEN <<>>
    ELSE IF TargetId = Null THEN <<>>
    ELSE FilterByImage(cocoData.annotations, TargetId)

\* fileTree, lines 91-102.
\* A test that every record passes.
SearchMatchesMutant(img, search) == TRUE
SearchMatches(img, search) ==
    LET lowerSearch == ToLowerCase(search)
    IN  \/ Includes(ToLowerCase(img.file_name), lowerSearch)
        \/ Includes(IF img.id.t = "num" THEN NumToString(img.id.v) ELSE img.id.v, lowerSearch)
RECURSIVE FilterImages(_, _)
FilterImages(images, search) ==
    IF images = <<>> THEN <<>>
    ELSE (IF SearchMatches(Head(images), search) THEN <<Head(images)>> ELSE <<>>)
             \o FilterImages(Tail(images), search)
fileTree ==
    IF cocoData = Null THEN Null
    ELSE buildFileTree(IF treeSearch # <<>> THEN FilterImages(cocoData.images, treeSearch)
                       ELSE cocoData.images)

\* Dropzone.validateAndAccept for accept = 'image' (Dropzone.tsx lines 41-51).
ImageExtensions == {<<"j", "p", "g">>, <<"j", "p", "e", "g">>, <<"p", "n", "g">>}
AcceptsImage(name) == ToLowerCase(AfterLastDot(name)) \in ImageExtensions


-----------------------------------------------------------------------------
(* SpecApp *)

MaxReads == 2      \* most FileReader loads in flight at once

Image(id, name) == [id |-> Num(id), file_name |-> name]
Annotation(id, imageId) == [id |-> id, image_id |-> imageId]

\* DocA: "d/a.png" (id 0), "e\A.jpg" (id 1, same stem as the first),
\* "d/ b.c.png " (id 2, two dots, blanks around the base name), "n" (id 3,
\* no folder, no extension).  Its annotations carry image_id as a number,
\* as numeric strings, as blank and non-numeric strings and as null.
DocA ==
    [t |-> "doc",
     images |-> <<Image(0, <<"d", "/", "a", ".", "p", "n", "g">>),
                  Image(1, <<"e", "\\", "A", ".", "j", "p", "g">>),
                  Image(2, <<"d", "/", " ", "b", ".", "c", ".", "p", "n", "g", " ">>),
                  Image(3, <<"n">>)>>,
     annotations |-> <<Annotation(1, Num(0)), Annotation(2, Str(<<"0">>)),
                       Annotation(3, Str(<<>>)), Annotation(4, Str(<<" ">>)),
                       Annotation(5, Num(1)), Annotation(6, Str(<<"1">>)),
                       Annotation(7, Str(<<" ", "1">>)), Annotation(8, Str(<<"a">>)),
                       Annotation(9, Null), Annotation(10, Str(<<"0", "1">>)),
                       Annotation(11, Num(3))>>]

\* DocB: ".png" (id 5, nothing before the dot) and "d/" (id 6, empty last
\* segment).
DocB ==
    [t |-> "doc",
     images |-> <<Image(5, <<".", "p", "n", "g">>), Image(6, <<"d", "/">>)>>,
     annotations |-> <<Annotation(1, Num(5)), Annotation(2, Str(<<"5">>)),
                       Annotation(3, Num(6))>>]

\* What a dropped .json file may hold: a document, text JSON.parse rejects,
\* or an object lacking one of images, annotations, categories.
JsonFiles ==
    {[kind |-> "doc", doc |-> DocA], [kind |-> "doc", doc |-> DocB],
     [kind |-> "unparsable"], [kind |-> "incomplete"]}

\* Names of dropped image files: "A.jpg", "B.C.jpeg", " N.PNG", "x.png",
\* ".jpg", and "a.d", which the Dropzone rejects.
UploadNames ==
    {<<"A", ".", "j", "p", "g">>, <<"B", ".", "C", ".", "j", "p", "e", "g">>,
     <<" ", "N", ".", "P", "N", "G">>, <<"x", ".", "p", "n", "g">>,
     <<".", "j", "p", "g">>, <<"a", ".", "d">>}

SearchTerms == {<<>>, <<"a">>, <<"1">>, <<"P", "N", "G">>}

InitApp ==
    /\ cocoData = Null
    /\ currentImageFile = Null
    /\ matchedImageId = Null
    /\ activeTab = "upload"
    /\ treeSearch = <<>>
    /\ selectedTreeImage = Null
    /\ error = Null
    /\ reads = <<>>
    /\ CodecIdle /\ RleIdle /\ ViewerIdle /\ OthersIdle

\* handleJsonUpload, lines 32-34 and 49: the error is cleared and the read
\* starts.  The JSON Dropzone is shown on the upload tab.
handleJsonUpload(file) ==
    /\ activeTab = "upload"
    /\ Len(reads) < MaxReads
    /\ error' = Null
    /\ reads' = Append(reads, file)
    /\ UNCHANGED <<cocoData, currentImageFile, matchedImageId, activeTab, treeSearch,
                   selectedTreeImage>>

\* reader.onload that stores what it has parsed before validating it.
ReaderOnloadMutant(k) ==
    /\ k \in 1..Len(reads)
    /\ reads' = SubSeq(reads, 1, k - 1) \o SubSeq(reads, k + 1, Len(reads))
    /\ cocoData' = (IF reads[k].kind = "doc" THEN reads[k].doc ELSE Null)
    /\ currentImageFile' = Null
    /\ matchedImageId' = Null
    /\ selectedTreeImage' = Null
    /\ error' = (IF reads[k].kind = "doc" THEN error ELSE ParseError(reads[k].kind))
    /\ UNCHANGED <<activeTab, treeSearch>>

\* reader.onload, lines 35-48, for the k-th read in flight.
ReaderOnload(k) ==
    /\ k \in 1..Len(reads)
    /\ reads' = SubSeq(reads, 1, k - 1) \o SubSeq(reads, k + 1, Len(reads))
    /\ IF reads[k].kind = "doc"
       THEN /\ cocoData' = reads[k].doc
            /\ currentImageFile' = Null
            /\ matchedImageId' = Null
            /\ selectedTreeImage' = Null
            /\ UNCHANGED error
       ELSE /\ error' = ParseError(reads[k].kind)
            /\ UNCHANGED <<cocoData, currentImageFile, matchedImageId, selectedTreeImage>>
    /\ UNCHANGED <<activeTab, treeSearch>>

\* handleImageUpload that keeps the current file when no record matches.
handleImageUploadMutant(name) ==
    /\ activeTab = "upload"
    /\ cocoData # Null
    /\ AcceptsImage(name)
    /\ LET found == FindImage(cocoData.images, NameNoExt(Trim(name)))
       IN  IF found # 0
           THEN /\ error' = Null
                /\ currentImageFile' = File(name)
                /\ matchedImageId' = cocoData.images[found].id
           ELSE /\ UNCHANGED currentImageFile
                /\ matchedImageId' = Null
                /\ error' = NotFoundError(Trim(name), ExampleNames(cocoData.images))
    /\ UNCHANGED <<cocoData, activeTab, treeSearch, selectedTreeImage, reads>>

\* handleImageUpload, lines 53-79.  The image Dropzone is shown on the
\* upload tab, is disabled without a document and hands over only files
\* whose extension it accepts.
handleImageUpload(name) ==
    /\ activeTab = "upload"
    /\ cocoData # Null
    /\ AcceptsImage(name)
    /\ LET uploadedBasename == Trim(name)
           uploadedNameNoExt == NameNoExt(uploadedBasename)
           found == FindImage(cocoData.images, uploadedNameNoExt)
       IN  IF found # 0
           THEN /\ error' = Null
                /\ currentImageFile' = File(name)
                /\ matchedImageId' = cocoData.images[found].id
                /\ activeTab' = "upload"
           ELSE /\ currentImageFile' = Null
                /\ matchedImageId' = Null
                /\ error' = NotFoundError(uploadedBasename, ExampleNames(cocoData.images))
                /\ UNCHANGED activeTab
    /\ UNCHANGED <<cocoData, treeSearch, selectedTreeImage, reads>>

\* The tab buttons, lines 150-164: the JSON Tree button is disabled
\* without a document.
SetActiveTab(tab) ==
    /\ tab = "structure" => cocoData # Null
    /\ activeTab' = tab
    /\ UNCHANGED <<cocoData, currentImageFile, matchedImageId, treeSearch,
                   selectedTreeImage, error, reads>>

\* The search box, lines 220-229, shown on the structure tab with a tree.
SetTreeSearch(term) ==
    /\ activeTab = "structure" /\ fileTree # Null
    /\ treeSearch' = term
    /\ UNCHANGED <<cocoData, currentImageFile, matchedImageId, activeTab,
                   selectedTreeImage, error, reads>>

\* FileTree onSelect, lines 231-235: a click on a file node of the tree.
SelectTreeImage(pos) ==
    /\ activeTab = "structure" /\ fileTree # Null
    /\ pos \in ShownFiles(fileTree)
    /\ selectedTreeImage' = fileTree[pos].data
    /\ UNCHANGED <<cocoData, currentImageFile, matchedImageId, activeTab, treeSearch,
                   error, reads>>

\* Positions a click can name: those of the trees of the documents.
TreePositions == UNION {DOMAIN buildFileTree(d.images) : d \in {DocA, DocB}}

NextApp ==
    \/ \E f \in JsonFiles : handleJsonUpload(f) /\ UNCHANGED <<codecVars, rleVars, viewerVars, otherVars>>
    \/ \E k \in 1..MaxReads : ReaderOnload(k) /\ UNCHANGED <<codecVars, rleVars, viewerVars, otherVars>>
    \/ \E n \in UploadNames : handleImageUpload(n) /\ UNCHANGED <<codecVars, rleVars, viewerVars, otherVars>>
    \/ \E tab \in {"upload", "structure"} :
           SetActiveTab(tab) /\ UNCHANGED <<codecVars, rleVars, viewerVars, otherVars>>
    \/ \E term \in SearchTerms :
           SetTreeSearch(term) /\ UNCHANGED <<codecVars, rleVars, viewerVars, otherVars>>
    \/ \E pos \in TreePositions :
           SelectTreeImage(pos) /\ UNCHANGED <<codecVars, rleVars, viewerVars, otherVars>>

SpecApp == InitApp /\ [][NextApp]_vars


-----------------------------------------------------------------------------
(* Reference notions used by the properties of SpecApp, stated on the      *)
(* positions of characters rather than with the library calls of the code.  *)

MaxOf(S) == CHOOSE i \in S : \A j \in S : j <= i
MinOf(S) == CHOOSE i \in S : \A j \in S : i <= j

\* s without its leading and trailing blanks.
RefTrimmed(s) ==
    LET solid == {i \in 1..Len(s) : s[i] # " "}
    IN  IF solid = {} THEN <<>> ELSE SubSeq(s, MinOf(solid), MaxOf(solid))

\* What follows the last / or \ of s; s itself without a separator.
RefLastSegment(s) ==
    LET seps == {i \in 1..Len(s) : s[i] \in {"/", "\\"}}
    IN  IF seps = {} THEN s ELSE SubSeq(s, MaxOf(seps) + 1, Len(s))

\* Everything from the last '.' removed; the whole string without a '.'.
RefStem(s) ==
    LET dots == {i \in 1..Len(s) : s[i] = "."}
    IN  IF dots = {} THEN s ELSE SubSeq(s, 1, MaxOf(dots) - 1)

\* As RefStem, and the whole string when nothing precedes the last '.'.
RefStemOrWhole(s) == IF RefStem(s) = <<>> THEN s ELSE RefStem(s)

\* The final path segment, trimmed.
RefBase(p) == RefTrimmed(RefLastSegment(p))

\* As RefBase, with the whole path when its final segment is empty.
RefBaseOrWhole(p) == RefTrimmed(IF RefLastSegment(p) = <<>> THEN p ELSE RefLastSegment(p))

RefSameIgnoringCase(a, b) ==
    Len(a) = Len(b) /\ \A i \in 1..Len(a) : LowerChar(a[i]) = LowerChar(b[i])

\* What a step of handleImageUpload(name) must leave behind, given how a
\* record's base name (Base) and a name without extension (Stem) are formed.
UploadOutcome(name, Stem(_), Base(_)) ==
    LET recs == cocoData.images
        wanted == Stem(RefTrimmed(name))
        hits == {i \in 1..Len(recs) :
                    RefSameIgnoringCase(Stem(Base(recs[i].file_name)), wanted)}
    IN  IF hits # {}
        THEN /\ currentImageFile' = File(name)
             /\ matchedImageId' = recs[MinOf(hits)].id
        ELSE /\ currentImageFile' = Null
             /\ matchedImageId' = Null
             /\ error'.kind = "notFound"
             /\ Len(error'.examples) = (IF Len(recs) < 3 THEN Len(recs) ELSE 3)
             /\ \A i \in 1..Len(error'.examples) :
                    error'.examples[i] = Base(recs[i].file_name)

\* C9 as stated: handleImageUpload selects the first image record in
\* document order whose file_name, reduced to its final path segment
\* (trimmed) and with everything from the last '.' removed (whole string if
\* there is no '.'), equals case-insensitively the uploaded name with its
\* extension removed by the same rule, and sets the current file and the
\* matched id; without a match it sets an error naming up to the first
\* three records' base names and sets the current file and matched id to
\* null.
C9_UploadSelectsFirstMatch ==
    [][\A n \in UploadNames :
           handleImageUpload(n) => UploadOutcome(n, RefStem, RefBase)]_vars

\* C9 amended: as stated, except that a name keeps its whole text when
\* nothing precedes its last '.', and a record's base name is its whole
\* file_name (trimmed) when the final path segment is empty.
C9_UploadSelectsFirstMatchOrWhole ==
    [][\A n \in UploadNames :
           handleImageUpload(n) => UploadOutcome(n, RefStemOrWhole, RefBaseOrWhole)]_vars

\* "A.jpg" has been matched to "d/a.png" (id 0), the first of the two records
\* of DocA with stem "a".
C9_Witness ==
    /\ cocoData = DocA
    /\ currentImageFile = File(<<"A", ".", "j", "p", "g">>)
    /\ matchedImageId = Num(0)

\* The decimal value of a string of digits.
RECURSIVE RefDigitsValue(_)
RefDigitsValue(s) ==
    IF s = <<>> THEN 0
    ELSE RefDigitsValue(SubSeq(s, 1, Len(s) - 1)) * 10
             + (CHOOSE d \in 0..9 : Digits[d + 1] = s[Len(s)])

\* v is the number t or a numeric-valued string equal to t: at least one
\* decimal digit, nothing but digits inside surrounding blanks.
RefSameId(v, t) ==
    \/ v.t = "num" /\ v.v = t
    \/ /\ v.t = "str"
       /\ LET d == RefTrimmed(v.v)
          IN  /\ d # <<>>
              /\ \A i \in 1..Len(d) : \E k \in 1..10 : Digits[k] = d[i]
              /\ RefDigitsValue(d) = t

\* C10: for a loaded document and a resolved target image id t,
\* currentAnnotations holds, in document order, exactly the annotations
\* whose image_id is the number t or a numeric-valued string equal to t
\* (none whose image_id is non-numeric or empty); it is empty when no
\* document is loaded or no target id is set.
C10_AnnotationsOfTarget ==
    IF cocoData = Null \/ TargetId = Null THEN currentAnnotations = <<>>
    ELSE currentAnnotations =
             SelectSeq(cocoData.annotations, LAMBDA a : RefSameId(a.image_id, TargetId.v))

-----------------------------------------------------------------------------
-----------------------------------------------------------------------------
(* FileTree.tsx: the order in which the children of a folder are rendered.  *)

Alphabet ==
    <<"a", "b", "c", "d", "e", "f", "g", "h", "i", "j", "k", "l", "m",
      "n", "o", "p", "q", "r", "s", "t", "u", "v", "w", "x", "y", "z">>

\* The place of a letter in the alphabet, whatever its case.
LetterIndex(c) == CHOOSE k \in 1..26 : Alphabet[k] = LowerChar(c)
IsUpper(c) == LowerChar(c) # c

\* String.prototype.localeCompare on names made of letters, as the
\* collation of the host orders them: the letters decide, whatever their
\* case, a name that is the beginning of another comes first, and between
\* names with the same letters the first difference of case decides,
\* lower case first ("a" < "A" < "b" < "B").
RECURSIVE CompareLetters(_, _)
CompareLetters(a, b) ==
    IF a = <<>> /\ b = <<>> THEN 0
    ELSE IF a = <<>> THEN -1
    ELSE IF b = <<>> THEN 1
    ELSE IF LetterIndex(Head(a)) < LetterIndex(Head(b)) THEN -1
    ELSE IF LetterIndex(Head(a)) > LetterIndex(Head(b)) THEN 1
    ELSE CompareLetters(Tail(a), Tail(b))

RECURSIVE CompareCase(_, _)
CompareCase(a, b) ==
    IF a = <<>> \/ b = <<>> THEN 0
    ELSE IF ~IsUpper(Head(a)) /\ IsUpper(Head(b)) THEN -1
    ELSE IF IsUpper(Head(a)) /\ ~IsUpper(Head(b)) THEN 1
    ELSE CompareCase(Tail(a), Tail(b))

localeCompare(a, b) ==
    IF CompareLetters(a, b) # 0 THEN CompareLetters(a, b) ELSE CompareCase(a, b)

\* The comparator of lines 64-68 on entries [key, node].
compareEntriesMutant(a, b) == localeCompare(a.key, b.key)
compareEntries(a, b) ==
    IF a.node.type # b.node.type THEN (IF a.node.type = "folder" THEN -1 ELSE 1)
    ELSE localeCompare(a.key, b.key)

\* The positions of the children of the node at pos.
ChildrenOf(tree, pos) ==
    {q \in DOMAIN tree : Len(q) = Len(pos) + 1 /\ SubSeq(q, 1, Len(pos)) = pos}

\* Object.entries(node.children), line 63.  The entries come in the order
\* of insertion; as two different keys never compare as equal, the order
\* does not show in what the sort returns, and the entries are enumerated
\* here in an arbitrary order.
RECURSIVE EntriesOf(_, _)
EntriesOf(tree, kids) ==
    IF kids = {} THEN <<>>
    ELSE LET q == CHOOSE x \in kids : TRUE
         IN  <<[key |-> q[Len(q)], node |-> tree[q]]>> \o EntriesOf(tree, kids \ {q})

\* Array.prototype.sort with compareEntries, as a stable insertion sort.
RECURSIVE InsertEntry(_, _)
InsertEntry(sorted, e) ==
    IF sorted = <<>> THEN <<e>>
    ELSE IF compareEntries(e, Head(sorted)) < 0 THEN <<e>> \o sorted
    ELSE <<Head(sorted)>> \o InsertEntry(Tail(sorted), e)

RECURSIVE SortEntries(_)
SortEntries(entries) ==
    IF entries = <<>> THEN <<>>
    ELSE InsertEntry(SortEntries(SubSeq(entries, 1, Len(entries) - 1)), entries[Len(entries)])

\* Lines 61-78: the children of an open folder, in rendered order.
DisplayedChildren(tree, pos) == SortEntries(EntriesOf(tree, ChildrenOf(tree, pos)))

\* The nodes FileTree renders as folders: a node of type file is rendered
\* as a leaf (lines 17-33) and nothing below it is rendered.
RenderedFolders(tree) ==
    {pos \in DOMAIN tree :
        \A k \in 0..Len(pos) : tree[SubSeq(pos, 1, k)].type = "folder"}

-----------------------------------------------------------------------------
(* SpecTree: buildFileTree applied to a list of image records.              *)

MaxImages == 3     \* most records in the list handed to buildFileTree

\* file_name values: "A/x", "A/y", "B/z", "a", "b", "A" (the full path of
\* one record is a folder of others), "A/x/w" (a file of others is its
\* folder), "B\z" (the segments of "B/z") and "constructor/x".
TreePaths ==
    {<<"A", "/", "x">>, <<"A", "/", "y">>, <<"B", "/", "z">>, <<"a">>, <<"b">>,
     <<"A">>, <<"A", "/", "x", "/", "w">>, <<"B", "\\", "z">>,
     <<"c", "o", "n", "s", "t", "r", "u", "c", "t", "o", "r", "/", "x">>}

\* The lists of up to MaxImages records; a record's id is its place in the
\* list.
TreeInputs ==
    {[i \in 1..Len(names) |-> Image(i, names[i])] : names \in SeqsUpTo(TreePaths, MaxImages)}

InitTree ==
    /\ treeInput \in TreeInputs
    /\ treeResult = NotCalled
    /\ treeShown = NotCalled
    /\ CodecIdle /\ RleIdle /\ ViewerIdle /\ AppIdle /\ ColorIdle /\ EffectIdle /\ started = Idle

BuildTree ==
    /\ treeResult = NotCalled
    /\ treeResult' = [kind |-> "tree", root |-> buildFileTree(treeInput)]
    /\ UNCHANGED <<treeInput, treeShown, codecVars, rleVars, viewerVars, appVars, colorVars, effectVars, started>>

\* FileTree rendered on the tree with every folder open.
RenderTree ==
    /\ treeResult # NotCalled
    /\ treeShown = NotCalled
    /\ treeShown' = [kind |-> "shown",
                     order |-> [pos \in RenderedFolders(treeResult.root) |->
                                   DisplayedChildren(treeResult.root, pos)]]
    /\ UNCHANGED <<treeInput, treeResult, codecVars, rleVars, viewerVars, appVars, colorVars, effectVars, started>>

NextTree == BuildTree \/ RenderTree

SpecTree == InitTree /\ [][NextTree]_vars

\* The segment sequence of the i-th record of the input.
Segments(i) == SplitPath(treeInput[i].file_name)

\* No two records have the same segment sequence, and no record's full path
\* is a proper folder prefix of another's.
DistinctLeaves ==
    \A i, j \in 1..Len(treeInput) :
        i # j => /\ Segments(i) # Segments(j)
                 /\ ~IsProperPrefix(Segments(i), Segments(j))

\* The proper, non-empty prefixes of the records' segment sequences.
FolderPrefixes ==
    UNION {{SubSeq(Segments(i), 1, k) : k \in 1..Len(Segments(i)) - 1} :
              i \in 1..Len(treeInput)}

\* The tree that was built, as a function from positions to nodes.
Built == treeResult.root

\* C12: for a list in which no two records have the same segment sequence
\* and no record's path is a proper folder prefix of another's, the tree
\* under the synthetic root folder has one folder node per distinct proper
\* path prefix, one file node per image, placed under the folder of its
\* prefix, named by its last segment and referencing the record, and
\* nothing else.
C12_TreeOfDistinctLeaves ==
    (treeResult # NotCalled /\ DistinctLeaves) =>
        /\ DOMAIN Built =
               {<<>>} \cup FolderPrefixes \cup {Segments(i) : i \in 1..Len(treeInput)}
        /\ Built[<<>>].type = "folder" /\ Built[<<>>].name = RootName
        /\ \A p \in FolderPrefixes :
               /\ p \in DOMAIN Built
               /\ Built[p].type = "folder"
               /\ Built[p].name = p[Len(p)]
        /\ \A i \in 1..Len(treeInput) :
               LET p == Segments(i)
               IN  /\ p \in DOMAIN Built
                   /\ Built[p].type = "file"
                   /\ Built[p].name = p[Len(p)]
                   /\ Built[p].data = treeInput[i]

\* The places of the records that no later record shares its segment
\* sequence with, and the input reduced to those records, in input order.
LastOfLeaf == {i \in 1..Len(treeInput) :
                  \A j \in 1..Len(treeInput) : Segments(j) = Segments(i) => j <= i}
LastRecordsOnly ==
    [k \in 1..Cardinality(LastOfLeaf) |->
        treeInput[CHOOSE i \in LastOfLeaf : Cardinality({j \in LastOfLeaf : j <= i}) = k]]

\* C13: when two or more records map to the same leaf path, the tree holds
\* one file node at that path, referencing the last such record in input
\* order, and every other node is as if only that last record had been
\* present.
C13_LastRecordWins ==
    (treeResult # NotCalled /\ LastOfLeaf # 1..Len(treeInput)) =>
        /\ \A i \in LastOfLeaf :
               (\E j \in 1..Len(treeInput) : j # i /\ Segments(j) = Segments(i))
                   => /\ Segments(i) \in DOMAIN Built
                      /\ Built[Segments(i)].type = "file"
                      /\ Built[Segments(i)].data = treeInput[i]
        /\ Built = buildFileTree(LastRecordsOnly)

\* The UTF-16 code unit order of two letters: upper case before lower case.
CodeUnitLess(c, d) ==
    \/ IsUpper(c) /\ ~IsUpper(d)
    \/ IsUpper(c) = IsUpper(d) /\ LetterIndex(c) < LetterIndex(d)

\* a comes before b in the case-sensitive lexicographic order.
LexLess(a, b) ==
    \E k \in 1..Len(b) :
        /\ k <= Len(a) + 1
        /\ SubSeq(a, 1, k - 1) = SubSeq(b, 1, k - 1)
        /\ (k = Len(a) + 1 \/ CodeUnitLess(a[k], b[k]))

\* a comes before b in the order of the host's collation.
CollationLess(a, b) == localeCompare(a, b) < 0

\* In every rendered folder the children shown are the children of the
\* node, folders come before files, and children of one kind are in the
\* order Less of their names.
ShownInOrder(Less(_, _)) ==
    \A pos \in DOMAIN treeShown.order :
        LET d == treeShown.order[pos]
        IN  /\ {Append(pos, d[i].key) : i \in 1..Len(d)} = ChildrenOf(Built, pos)
            /\ Len(d) = Cardinality(ChildrenOf(Built, pos))
            /\ \A i, j \in 1..Len(d) :
                   i < j => /\ ~(d[i].node.type = "file" /\ d[j].node.type = "folder")
                            /\ d[i].node.type = d[j].node.type
                                   => Less(d[i].node.name, d[j].node.name)

\* C14 as stated: in the displayed order of the children of a folder node
\* every folder child comes before every file child, and two children of
\* the same kind are ordered by case-sensitive lexicographic comparison of
\* their names.
C14_ChildrenInLexOrder == treeShown # NotCalled => ShownInOrder(LexLess)

\* C14 amended: as stated, with children of the same kind ordered by
\* localeCompare of their names, the locale-sensitive order of the host.
C14_ChildrenInCollationOrder == treeShown # NotCalled => ShownInOrder(CollationLess)

\* The root shows the folder B before the files a and b.
C14_Witness ==
    /\ treeShown # NotCalled
    /\ Len(treeShown.order[<<>>]) = 3
    /\ treeShown.order[<<>>][1].node.type = "folder"
    /\ treeShown.order[<<>>][1].key = <<"B">>
    /\ treeShown.order[<<>>][2].key = <<"a">>
    /\ treeShown.order[<<>>][3].key = <<"b">>

-----------------------------------------------------------------------------
\* s contains term, case ignored.
RefContains(s, term) ==
    \E off \in 0..Len(s) :
        /\ off + Len(term) <= Len(s)
        /\ \A i \in 1..Len(term) : LowerChar(s[off + i]) = LowerChar(term[i])

\* C15: after any sequence of document loads and search-term changes, every
\* file node of the current tree references an image record of the loaded
\* document whose file_name or decimal id string contains the current
\* search term, case ignored (every record when the term is empty); no node
\* is left from an earlier build, term or document.
C15_TreeHoldsCurrentMatches ==
    cocoData # Null =>
        \A pos \in DOMAIN fileTree :
            fileTree[pos].type = "file" =>
                \E i \in 1..Len(cocoData.images) :
                    /\ fileTree[pos].data = cocoData.images[i]
                    /\ \/ RefContains(cocoData.images[i].file_name, treeSearch)
                       \/ RefContains(NumToString(cocoData.images[i].id.v), treeSearch)

\* DocB is loaded while the search term is "PNG", and the tree holds the
\* file node of ".png" only.
C15_Witness ==
    /\ cocoData = DocB
    /\ treeSearch = <<"P", "N", "G">>
    /\ {pos \in DOMAIN fileTree : fileTree[pos].type = "file"} = {<< <<".", "p", "n", "g">> >>}

-----------------------------------------------------------------------------
(* SpecColor: getColorForId applied to an integer id.                       *)

MaxColorId == 60   \* ids range over -MaxColorId..MaxColorId

InitColor ==
    /\ colorId \in -MaxColorId..MaxColorId
    /\ rgb = NotCalled
    /\ CodecIdle /\ RleIdle /\ ViewerIdle /\ AppIdle /\ TreeIdle /\ EffectIdle /\ started = Idle

ComputeColor ==
    /\ rgb = NotCalled
    /\ rgb' = [kind |-> "rgb", channels |-> getColorForId(colorId)]
    /\ UNCHANGED <<colorId, codecVars, rleVars, viewerVars, appVars, treeVars, effectVars, started>>

NextColor == ComputeColor

SpecColor == InitColor /\ [][NextColor]_vars

\* C16: for every integer id, getColorForId(id) returns three integer
\* channel values, each in 0..255.
C16_ChannelsInRange ==
    rgb # NotCalled =>
        /\ Len(rgb.channels) = 3
        /\ \A i \in 1..3 : rgb.channels[i] \in 0..255

-----------------------------------------------------------------------------
\* The values of a compressed string as they are read, before any delta is
\* added: one variable-length integer after the other from index p on.
RECURSIVE RawValuesFrom(_, _)
RawValuesFrom(str, p) ==
    IF p < Len(str)
    THEN LET v == VarintFrom(str, p, 0, 0) IN <<v.x>> \o RawValuesFrom(str, v.p)
    ELSE <<>>

\* The decoded sequence adds to each value read the output two places back
\* from the 0-based output index first on, and stores the values before
\* that as they are read.
DeltaFromIndex(first) ==
    LET raw == RawValuesFrom(rleString, 0)
        out == decoded.counts
    IN  /\ Len(out) = Len(raw)
        /\ \A i \in 0..Len(out) - 1 :
               out[i + 1] = (IF i >= first THEN raw[i + 1] + out[i - 1] ELSE raw[i + 1])

\* C17 as stated: decodeCocoRleString applies the delta rule from the third
\* decoded value on: for every output index i >= 2 the stored value is the
\* decoded delta plus output[i-2], and for the indices 0 and 1 it is the
\* decoded value itself.
C17_DeltaFromThirdValue == decoded # NotCalled => DeltaFromIndex(2)

\* C17 amended: the delta rule applies from the fourth decoded value on
\* (output index i >= 3); the values at the indices 0, 1 and 2 are stored
\* as decoded.
C17_DeltaFromFourthValue == decoded # NotCalled => DeltaFromIndex(3)

\* Four values have been decoded, and the fourth was read as a non-zero
\* delta against a non-zero second value.
C17_Witness ==
    /\ decoded # NotCalled
    /\ Len(decoded.counts) = 4
    /\ decoded.counts[2] # 0
    /\ RawValuesFrom(rleString, 0)[4] # 0
    /\ decoded.counts[4] = RawValuesFrom(rleString, 0)[4] + decoded.counts[2]

-----------------------------------------------------------------------------
(* SpecEffect: Viewer.useEffect run again and again on the one canvas of    *)
(* canvasRef.  React runs the cleanup of the previous run before each new   *)
(* run and at unmount; nothing else ends a run: its img.onload, img.onerror *)
(* and requestAnimationFrame callbacks stay registered and fire when the    *)
(* browser gets to them.  Revoking the object URL does not stop a load      *)
(* that has started: the load completes or fails.                           *)

MaxEffectRuns == 3     \* most runs of the effect

\* The annotations prop of a run: none, one annotation with a bounding box
\* and a 1x2 mask, or one annotation whose segmentation is null.
EffectProps ==
    {<<>>,
     <<[id |-> 1, hasBbox |-> TRUE, seg |-> "rle",
        rle |-> [hasSize |-> TRUE, h |-> 1, w |-> 2, type |-> "array", counts |-> <<1, 1>>]]>>,
     <<[id |-> 1, hasBbox |-> FALSE, seg |-> "null", rle |-> NoRle]>>}

\* The cleanup of lines 186-188 for run k: URL.revokeObjectURL(objectUrl).
CleanupMutant(urls, k) == urls
Cleanup(urls, k) == [urls EXCEPT ![k] = "revoked"]

\* The draw operations ops, tagged with the run that issued them.
TagOps(ops, k) == [i \in 1..Len(ops) |-> [op |-> ops[i].op, ann |-> ops[i].ann, run |-> k]]

InitEffect ==
    /\ effectRuns = <<>>
    /\ effectCanvas = [base |-> 0, ops |-> <<>>]
    /\ effectLoading = FALSE
    /\ objectUrls = <<>>
    /\ mounted = TRUE
    /\ CodecIdle /\ RleIdle /\ ViewerIdle /\ AppIdle /\ TreeIdle /\ ColorIdle /\ started = Idle

\* A render with a changed imageFile, annotations or categories: the
\* cleanup of the previous run, then the effect body of lines 37-48.
RunEffect(anns) ==
    /\ mounted
    /\ Len(effectRuns) < MaxEffectRuns
    /\ effectLoading' = TRUE
    /\ effectRuns' = Append(effectRuns, [anns |-> anns, stage |-> "loading"])
    /\ objectUrls' = Append(IF effectRuns = <<>> THEN objectUrls
                            ELSE Cleanup(objectUrls, Len(effectRuns)),
                            "live")
    /\ UNCHANGED <<effectCanvas, mounted>>

\* img.onload of run k, lines 50-59: assigning canvas.width clears the
\* canvas, the base image is drawn and the overlay callback scheduled.
OnloadOfRun(k) ==
    /\ k \in 1..Len(effectRuns)
    /\ effectRuns[k].stage = "loading"
    /\ effectCanvas' = [base |-> k, ops |-> <<>>]
    /\ effectRuns' = [effectRuns EXCEPT ![k].stage = "scheduled"]
    /\ UNCHANGED <<effectLoading, objectUrls, mounted>>

\* img.onerror of run k, lines 181-184.  setLoading on an unmounted
\* component changes nothing.
OnerrorOfRun(k) ==
    /\ k \in 1..Len(effectRuns)
    /\ effectRuns[k].stage = "loading"
    /\ effectLoading' = (IF mounted THEN FALSE ELSE effectLoading)
    /\ effectRuns' = [effectRuns EXCEPT ![k].stage = "failed"]
    /\ UNCHANGED <<effectCanvas, objectUrls, mounted>>

\* The requestAnimationFrame callback of run k, lines 59-178.
FrameOfRun(k) ==
    /\ k \in 1..Len(effectRuns)
    /\ effectRuns[k].stage = "scheduled"
    /\ LET r == RenderOverlays(effectRuns[k].anns)
       IN  /\ effectCanvas' = [effectCanvas EXCEPT !.ops = @ \o TagOps(r.ops, k)]
           /\ effectLoading' = (IF r.threw \/ ~mounted THEN effectLoading ELSE FALSE)
           /\ effectRuns' = [effectRuns EXCEPT ![k].stage = IF r.threw THEN "threw" ELSE "done"]
    /\ UNCHANGED <<objectUrls, mounted>>

\* The Viewer is unmounted: the cleanup of the last run.
Unmount ==
    /\ mounted
    /\ mounted' = FALSE
    /\ objectUrls' = (IF effectRuns = <<>> THEN objectUrls
                      ELSE Cleanup(objectUrls, Len(effectRuns)))
    /\ UNCHANGED <<effectRuns, effectCanvas, effectLoading>>

NextEffect ==
    \/ \E anns \in EffectProps :
           RunEffect(anns) /\ UNCHANGED <<codecVars, rleVars, viewerVars, appVars, treeVars, colorVars, started>>
    \/ \E k \in 1..MaxEffectRuns :
           OnloadOfRun(k) /\ UNCHANGED <<codecVars, rleVars, viewerVars, appVars, treeVars, colorVars, started>>
    \/ \E k \in 1..MaxEffectRuns :
           OnerrorOfRun(k) /\ UNCHANGED <<codecVars, rleVars, viewerVars, appVars, treeVars, colorVars, started>>
    \/ \E k \in 1..MaxEffectRuns :
           FrameOfRun(k) /\ UNCHANGED <<codecVars, rleVars, viewerVars, appVars, treeVars, colorVars, started>>
    \/ Unmount /\ UNCHANGED <<codecVars, rleVars, viewerVars, appVars, treeVars, colorVars, started>>

SpecEffect == InitEffect /\ [][NextEffect]_vars

\* No callback of any run is pending.
AllCallbacksRan ==
    \A k \in 1..Len(effectRuns) : effectRuns[k].stage \notin {"loading", "scheduled"}

\* C18: when the effect is triggered again while an earlier run's image
\* load or animation-frame callback is pending, the earlier run's
\* callbacks neither draw on the canvas nor resize it after the newer run
\* has started, and once all callbacks have run the canvas shows the base
\* image and the overlays of the most recently triggered run only.
C18_StaleRunsLeaveCanvasAlone ==
    /\ [][\A k \in 1..MaxEffectRuns :
              ((OnloadOfRun(k) \/ FrameOfRun(k)) /\ k < Len(effectRuns))
                  => UNCHANGED effectCanvas]_vars
    /\ [](AllCallbacksRan =>
              /\ effectCanvas.base \in {0, Len(effectRuns)}
              /\ \A i \in 1..Len(effectCanvas.ops) :
                     effectCanvas.ops[i].run = Len(effectRuns))

\* C19: each run of the effect that creates an object URL revokes that URL
\* in its cleanup: at any time at most one object URL created by the
\* Viewer is not revoked, it is the one of the latest run, and none is
\* left after the Viewer is unmounted.
C19_AtMostOneLiveUrl ==
    /\ Len(objectUrls) = Len(effectRuns)
    /\ \A k \in 1..Len(objectUrls) : objectUrls[k] = "live" => k = Len(objectUrls) /\ mounted

\* The Viewer was unmounted after three runs of the effect, and the three
\* URLs are revoked.
C19_Witness ==
    /\ ~mounted
    /\ Len(objectUrls) = 3
    /\ \A k \in 1..3 : objectUrls[k] = "revoked"

-----------------------------------------------------------------------------
\* C20: in every reachable state of App, after any interleaving of JSON
\* uploads and their read completions, image uploads, tab switches and
\* tree selections, the current image file and the matched image id are
\* both null or both non-null, a non-null matched id is the id of an image
\* record of the loaded document, and a non-null selected tree image is a
\* record of the loaded document.
C20_SelectionsBelongToDocument ==
    /\ (currentImageFile = Null) <=> (matchedImageId = Null)
    /\ matchedImageId # Null =>
           /\ cocoData # Null
           /\ \E i \in 1..Len(cocoData.images) : cocoData.images[i].id = matchedImageId
    /\ selectedTreeImage # Null =>
           /\ cocoData # Null
           /\ \E i \in 1..Len(cocoData.images) : cocoData.images[i] = selectedTreeImage

\* With DocA loaded, "A.jpg" is matched to id 0, the record "n" is selected
\* in the tree, and a read of another file is in flight.
C20_Witness ==
    /\ cocoData = DocA
    /\ matchedImageId = Num(0)
    /\ currentImageFile # Null
    /\ selectedTreeImage = DocA.images[4]
    /\ Len(reads) = 1

-----------------------------------------------------------------------------
\* C21: for every list of image records, those included in which the full
\* path of one record is a folder prefix of the path of another, in either
\* order, every node of the tree that has children is a folder, every file
\* node has no children and holds an image reference, and every record
\* whose path is not the path of a later record is reachable from the root
\* as a file node.
C21_TreeWellFormed ==
    treeResult # NotCalled =>
        /\ \A pos \in DOMAIN Built :
               ChildrenOf(Built, pos) # {} => Built[pos].type = "folder"
        /\ \A pos \in DOMAIN Built :
               Built[pos].type = "file"
                   => ChildrenOf(Built, pos) = {} /\ Built[pos].data # Null
        /\ \A i \in LastOfLeaf :
               /\ \A k \in 0..Len(Segments(i)) : SubSeq(Segments(i), 1, k) \in DOMAIN Built
               /\ Built[Segments(i)].type = "file"
               /\ Built[Segments(i)].data = treeInput[i]

-----------------------------------------------------------------------------
(* SpecUploads: JSON uploads started while earlier reads are in flight.     *)
(* Each upload creates its own FileReader (App.tsx line 34), and the reads  *)
(* of different readers complete in any order.  started records the        *)
(* uploads of the current batch in the order they were started.            *)

MaxStarted == 3    \* most uploads started in one batch

InitUploads ==
    /\ cocoData = Null
    /\ currentImageFile = Null
    /\ matchedImageId = Null
    /\ activeTab = "upload"
    /\ treeSearch = <<>>
    /\ selectedTreeImage = Null
    /\ error = Null
    /\ reads = <<>>
    /\ started = <<>>
    /\ CodecIdle /\ RleIdle /\ ViewerIdle /\ TreeIdle /\ ColorIdle /\ EffectIdle

\* handleJsonUpload(file); a batch begins when no read is in flight.
StartUpload(file) ==
    /\ started' = (IF reads = <<>> THEN <<file>> ELSE Append(started, file))
    /\ Len(started') <= MaxStarted
    /\ handleJsonUpload(file)
    /\ UNCHANGED <<codecVars, rleVars, viewerVars, treeVars, colorVars, effectVars>>

\* reader.onload of the k-th read in flight.
CompleteRead(k) ==
    /\ ReaderOnload(k)
    /\ UNCHANGED <<started, codecVars, rleVars, viewerVars, treeVars, colorVars, effectVars>>

NextUploads ==
    \/ \E f \in JsonFiles : StartUpload(f)
    \/ \E k \in 1..MaxReads : CompleteRead(k)

SpecUploads == InitUploads /\ [][NextUploads]_vars

\* The places in started of the uploads whose file holds a document.
ValidStarted == {i \in 1..Len(started) : started[i].kind = "doc"}

\* C22: when several JSON uploads are started before their reads complete,
\* then after all reads have completed the loaded document is that of the
\* most recently started valid upload and the error is non-null only if
\* the most recently started upload failed, whatever the order in which
\* the reads complete.
C22_LastStartedUploadWins ==
    (reads = <<>> /\ Len(started) >= 2) =>
        /\ ValidStarted # {} => cocoData = started[MaxOf(ValidStarted)].doc
        /\ error # Null => started[Len(started)].kind # "doc"

=============================================================================
